---- MODULE Spec2Model ----
(***************************************************************************)
(* Transaction-aware Celery task handling of websauna                      *)
(* (websauna/system/task/tasks.py).                                        *)
(*                                                                         *)
(* Two specifications share the variables below:                           *)
(*   Spec      the web-process side: apply_async, the after-commit hooks   *)
(*             of the caller's transactions and what the Task Queue        *)
(*             receives;                                                   *)
(*   SpecExec  the worker side: one execution of a task through __call__,  *)
(*             exec_eager, the retry loop and after_return.                *)
(***************************************************************************)
EXTENDS Integers, Sequences, FiniteSets, TLC

\* ---------------------------------------------------------------- bounds
\* Number of apply_async calls made in one behaviour.
MaxSubs == 2
\* Largest retry_attempt_count a worker's transaction manager is configured with.
MaxAttempts == 3
\* Largest number of finished callbacks one run of a task body registers.
MaxCallbacks == 2
MaxExecs == 3

\* ------------------------------------------------------------ value sets
\* The transaction managers of the web process (one per request thread).
TM == {"tm1", "tm2"}
\* Values of the 'tm' option that are no transaction manager: the option is
\* absent, or present but falsy (None).
NoTm == "missing"
EmptyTm == "none"
TmOption == TM \cup {NoTm, EmptyTm}
\* Mutable argument objects owned by the caller and the values they hold.
Objs == {"o1"}
Vals == {1, 2}
\* The two task base classes: ScheduleOnCommitTask and RetryableTransactionTask.
Kinds == {"plain", "retryable"}
\* What one run of the task body does: return, raise a conflict-class
\* (retryable) error, raise any other error.
Outcomes == {"ok", "conflict", "error"}
\* The behaviour of a task body over its successive runs.
Scripts == [1 .. MaxAttempts -> Outcomes]
\* What a task body that no wrapper runs inside a transaction does with
\* request.tm: never touches it, joins a transaction and leaves it open, or
\* brackets its work itself ("with request.tm:").
Leaves == {"none", "open", "closed"}

VARIABLES
    heap,       \* [Objs -> Vals]: current content of the caller's argument objects
    txn,        \* [TM -> transaction record]: the transaction tm.get() returns
    subs,       \* log of the apply_async calls made so far
    queue,      \* jobs the Task Queue has received, in order of receipt
    ex,         \* the task execution of the worker (SpecExec)
    own,        \* the transaction managers of the running executions (SpecOwn)
    proxy       \* the TaskProxy the web process submits through (SpecProxy)

vars == <<heap, txn, subs, queue, ex, own, proxy>>

\* The transaction a request begins with: open, no hook registered.
Fresh == [status |-> "active", hooks |-> <<>>, idx |-> 1]

\* Variant of TmMissing that tests only whether the option is present.
TmAbsentOnly(tm) == tm = NoTm

\* get_transaction_manager: "if not tm: raise RuntimeError".
TmMissing(tm) == tm \in {NoTm, EmptyTm}

\* Variant of UsesInstantPath that defers every call.
NeverInstantPath(producer) == FALSE

\* apply_async: '"producer" in options' selects the instant path.
UsesInstantPath(producer) == producer

\* Variant of RegisterHook that puts the new hook first.
RegisterHookFirst(hooks, h) == <<h>> \o hooks

\* addAfterCommitHook(self._after_commit_hook, args=args, kws=kwargs):
\* the hook is appended to the transaction's list; it holds a reference to
\* the caller's argument object, not a copy of its content.
RegisterHook(hooks, h) == Append(hooks, h)

\* Variant of HookSubmits that never submits.
HookSubmitsNever(success) == FALSE

\* Variant of HookSubmits that ignores the outcome of the commit.
HookSubmitsAlways(success) == TRUE

\* _after_commit_hook: "if success:" guards the submission.
HookSubmits(success) == success

\* Variant of HookReturn that returns the result of super().apply_async.
HookReturnHandle(success) == IF success THEN "handle" ELSE "None"

\* _after_commit_hook: the result of super().apply_async is logged; the
\* function has no return statement.
HookReturn(success) == "None"

\* The job super().apply_async hands to the Task Queue: the argument object
\* is read (serialised) now.
Job(s, o, via, hasTm) ==
    [sub |-> s, val |-> heap[o], obj |-> o, via |-> via, hasTm |-> hasTm]

\* The places an execution can run in at the same time as another one.
Slots == {"s1", "s2"}
\* The web requests whose commit triggers an execution.
Callers == {1, 2}

\* No execution is running and no TransactionManager() has been created.
NoneRunning ==
    [next |-> 0,
     run |-> [s \in Slots |-> [state |-> "free", kind |-> "plain", eager |-> FALSE,
                               tms |-> {}, callerTm |-> <<"none", 0>>]]]

\* TaskProxy.__init__: "self.celery_task = None".
Unbound ==
    [bound |-> FALSE, refused |-> "never",
     lastCall |-> [bound |-> FALSE, result |-> "none"], ran |-> 0]

\* The worker before it has executed anything.
Idle ==
    [pc |-> "idle", kind |-> "plain", eager |-> FALSE, configured |-> 1,
     retryCount |-> 1, script |-> [i \in 1 .. MaxAttempts |-> "ok"],
     leaves |-> "none", attempts |-> 0, log |-> <<>>, txn |-> "none",
     wrapped |-> FALSE, raised |-> "none", status |-> "PENDING",
     events |-> <<>>, ncb |-> 0, pending |-> <<>>, registered |-> <<>>,
     invoked |-> <<>>, cbTxnOpen |-> FALSE, notes |-> <<>>, logged |-> FALSE]

Init ==
    /\ heap \in [Objs -> Vals]
    /\ txn = [tm \in TM |-> Fresh]
    /\ subs = <<>>
    /\ queue = <<>>
    /\ ex = Idle
    /\ own = NoneRunning
    /\ proxy = Unbound

\* apply_async(*args, **options), with both of its branches:
\* apply_async_instant and apply_async_on_commit.
ApplyAsync(producer, tm, o) ==
    /\ Len(subs) < MaxSubs
    \* the view calls apply_async inside its request's open transaction
    /\ tm \in TM => txn[tm].status = "active"
    /\ LET s == Len(subs) + 1
           call == [producer |-> producer, tm |-> tm, obj |-> o,
                    valAtSubmit |-> heap[o], result |-> "None"]
       IN  IF UsesInstantPath(producer)
           THEN \* apply_async_instant: options are forwarded untouched
                /\ queue' = Append(queue, Job(s, o, "instant", tm # NoTm))
                /\ subs' = Append(subs, [call EXCEPT !.result = "handle"])
                /\ UNCHANGED txn
           ELSE IF TmMissing(tm)
           THEN \* get_transaction_manager raises RuntimeError
                /\ subs' = Append(subs, [call EXCEPT !.result = "RuntimeError"])
                /\ UNCHANGED <<txn, queue>>
           ELSE IF tm \notin TM
           THEN \* tm.get() on something that is no transaction manager
                /\ subs' = Append(subs, [call EXCEPT !.result = "AttributeError"])
                /\ UNCHANGED <<txn, queue>>
           ELSE \* kwargs.pop("tm"); tm.get().addAfterCommitHook(...)
                LET h == [sub |-> s, obj |-> o, fired |-> 0, ret |-> "unfired"]
                IN  /\ txn' = [txn EXCEPT ![tm].hooks = RegisterHook(txn[tm].hooks, h)]
                    /\ subs' = Append(subs, call)
                    /\ UNCHANGED queue
    /\ UNCHANGED <<heap, ex, own, proxy>>

\* The caller changes an argument object it still holds.
Mutate(o, v) ==
    /\ heap[o] # v
    /\ heap' = [heap EXCEPT ![o] = v]
    /\ UNCHANGED <<txn, subs, queue, ex, own, proxy>>

\* Transaction.commit(): the data is durable, the after-commit hooks are
\* about to be called with True.
Commit(tm) ==
    /\ txn[tm].status = "active"
    /\ txn' = [txn EXCEPT ![tm].status = "durable"]
    /\ UNCHANGED <<heap, subs, queue, ex, own, proxy>>

\* Transaction.commit() failing: the after-commit hooks are called with False.
CommitFail(tm) ==
    /\ txn[tm].status = "active"
    /\ txn' = [txn EXCEPT ![tm].status = "failing"]
    /\ UNCHANGED <<heap, subs, queue, ex, own, proxy>>

\* Transaction.abort(): the hooks are never called.
Abort(tm) ==
    /\ txn[tm].status = "active"
    /\ txn' = [txn EXCEPT ![tm].status = "aborted"]
    /\ UNCHANGED <<heap, subs, queue, ex, own, proxy>>

\* _after_commit_hook(success, *args, **kwargs), called by the transaction
\* for the next hook of its list.
AfterCommitHook(tm) ==
    LET t == txn[tm] IN
    /\ t.status \in {"durable", "failing"}
    /\ t.idx <= Len(t.hooks)
    /\ LET h == t.hooks[t.idx]
           success == t.status = "durable"
       IN  /\ queue' = IF HookSubmits(success)
                       THEN Append(queue, Job(h.sub, h.obj, "hook", FALSE))
                       ELSE queue
           /\ txn' = [txn EXCEPT ![tm] =
                         [t EXCEPT !.hooks[t.idx] =
                                       [h EXCEPT !.fired = h.fired + 1,
                                                 !.ret = HookReturn(success)],
                                   !.idx = t.idx + 1]]
    /\ UNCHANGED <<heap, subs, ex, own, proxy>>

\* Transaction.commit() returns (or re-raises) once every hook was called.
CommitReturn(tm) ==
    LET t == txn[tm] IN
    /\ t.status \in {"durable", "failing"}
    /\ t.idx > Len(t.hooks)
    /\ txn' = [txn EXCEPT ![tm].status =
                  IF t.status = "durable" THEN "committed" ELSE "commitfailed"]
    /\ UNCHANGED <<heap, subs, queue, ex, own, proxy>>

Next ==
    \/ \E producer \in BOOLEAN, tm \in TmOption, o \in Objs : ApplyAsync(producer, tm, o)
    \/ \E o \in Objs, v \in Vals : Mutate(o, v)
    \/ \E tm \in TM : Commit(tm)
    \/ \E tm \in TM : CommitFail(tm)
    \/ \E tm \in TM : Abort(tm)
    \/ \E tm \in TM : AfterCommitHook(tm)
    \/ \E tm \in TM : CommitReturn(tm)

Spec == Init /\ [][Next]_vars


\* ------------------------------------------------------------------------
\* The worker side: one execution of a task
\* ------------------------------------------------------------------------

\* Variant of UsesRetryLoop without the is_eager test of __call__.
UsesRetryLoopAlsoEager(kind, eager) == kind = "retryable"

\* Variant of UsesRetryLoop in which __call__ runs the body directly.
UsesRetryLoopNever(kind, eager) == FALSE

\* RetryableTransactionTask.__call__: outside eager mode the body runs under
\* @retryable(tm=request.tm).
UsesRetryLoop(kind, eager) == kind = "retryable" /\ ~eager

\* Variant of EagerRetryCount that keeps the configured count.
EagerRetryCountKept(configured) == configured

\* exec_eager: "tm.retry_attempt_count = 1".
EagerRetryCount(configured) == 1

\* Variant of WithTmExit that commits whatever happened.
WithTmExitCommits(outcome) == "committed"

\* exec_eager of RetryableTransactionTask: "with tm:" commits when the body
\* returns and aborts when it raises.
WithTmExit(outcome) == IF outcome = "ok" THEN "committed" ELSE "aborted"

\* The loop of websauna.system.model.retry.retryable, for the attempt that
\* just ended with `outcome`: the fate of the attempt's transaction and
\* what the loop does next.
RetryLoopStep(outcome, attempts, retryCount) ==
    IF outcome = "ok" THEN [txn |-> "committed", next |-> "return"]
    ELSE IF outcome = "conflict" /\ attempts < retryCount
         THEN [txn |-> "aborted", next |-> "retry"]
    ELSE [txn |-> "aborted", next |-> "raise"]

\* What a body that runs outside any wrapper transaction leaves behind.
BodyLeaves(leaves, outcome) ==
    IF leaves = "closed" THEN WithTmExit(outcome) ELSE leaves

\* Variant of LogsException in which every wrapper logs.
LogsExceptionAlways(kind, eager) == ~eager

\* Variant of LogsException in which no wrapper logs.
LogsExceptionNever(kind, eager) == FALSE

\* __call__ outside eager mode: ScheduleOnCommitTask wraps the call in
\* "except Exception: logger.error(...); logger.exception(e); raise";
\* RetryableTransactionTask overrides __call__ with "try: ... finally: pass".
LogsException(kind, eager) == kind = "plain" /\ ~eager

\* The finished callbacks run number n of a body registers on the request.
BodyCallbacks(n, ncb) == [i \in 1 .. ncb |-> <<n, i>>]

\* Variant of TearsDown without the is_eager test.
TearsDownNever(eager) == FALSE

\* after_return: "if not self.request.is_eager:".
TearsDown(eager) == ~eager

\* Variant of AbortsOnTeardown that never aborts.
AbortsOnTeardownNever(status, t) == FALSE

\* after_return: 'if status == "FAILURE": ... if txn: txn.abort()'.
AbortsOnTeardown(status, t) == status = "FAILURE" /\ t = "open"

\* Variant of TeardownSteps that aborts last.
TeardownStepsAbortLast(aborts) ==
    <<"notify", "callbacks">> \o (IF aborts THEN <<"abort">> ELSE <<>>)

\* after_return: the order of its statements.
TeardownSteps(aborts) ==
    (IF aborts THEN <<"abort">> ELSE <<>>) \o <<"notify", "callbacks">>

\* Step a comes before step b in steps.
Precedes(steps, a, b) ==
    \E i, j \in DOMAIN steps : i < j /\ steps[i] = a /\ steps[j] = b

\* Variant of NotifyEvents that notifies only of failures.
NotifyEventsOnFailure(status, open) ==
    IF status = "FAILURE"
    THEN <<[args |-> <<"request", "task">>, txnOpen |-> open]>>
    ELSE <<>>

\* after_return: "request.registry.notify(TaskFinished(request, self))";
\* `open` records whether the task's transaction is open at that moment.
NotifyEvents(status, open) == <<[args |-> <<"request", "task">>, txnOpen |-> open]>>

\* Variant of CallbacksRun that skips the callbacks of a failed task.
CallbacksRunOnSuccess(status, pending) ==
    IF status = "FAILURE" THEN <<>> ELSE pending

\* after_return: "request._process_finished_callbacks()" pops and calls the
\* pending callbacks from the left until none is left.
CallbacksRun(status, pending) == pending

\* Celery's state for a call of the task that returned / raised.
CeleryStatus(raised) == IF raised = "none" THEN "SUCCESS" ELSE "FAILURE"

InitExec ==
    /\ heap = [o \in Objs |-> CHOOSE v \in Vals : TRUE]
    /\ txn = [tm \in TM |-> Fresh]
    /\ subs = <<>>
    /\ queue = <<>>
    /\ ex = Idle
    /\ own = NoneRunning
    /\ proxy = Unbound

\* The Task Queue calls the task: __call__ up to the point where the body is
\* about to run.  In eager mode exec_eager builds a new TransactionManager
\* with retry_attempt_count = 1; otherwise the request's manager, with its
\* configured count, is used.
Call(kind, eager, configured, script, leaves, ncb) ==
    /\ ex.pc = "idle"
    /\ kind = "retryable" => leaves = "none"
    /\ ex' = [Idle EXCEPT !.pc = "ready", !.kind = kind, !.eager = eager,
                          !.configured = configured,
                          !.retryCount = IF eager THEN EagerRetryCount(configured)
                                                  ELSE configured,
                          !.script = script, !.leaves = leaves, !.ncb = ncb]
    /\ UNCHANGED <<heap, txn, subs, queue, own, proxy>>

\* The body is entered: by the retry loop after manager.begin(), by
\* exec_eager of RetryableTransactionTask inside "with tm:", or directly
\* (ScheduleOnCommitTask, which opens no transaction).
BeginAttempt ==
    /\ ex.pc = "ready"
    /\ LET opens == UsesRetryLoop(ex.kind, ex.eager)
                    \/ (ex.kind = "retryable" /\ ex.eager)
       IN  ex' = [ex EXCEPT !.pc = "running",
                            !.attempts = ex.attempts + 1,
                            !.wrapped = opens,
                            !.txn = IF opens THEN "open" ELSE "none"]
    /\ UNCHANGED <<heap, txn, subs, queue, own, proxy>>

\* The body returns or raises, and __call__ deals with it: the retry loop
\* commits, retries or gives up; "with tm:" commits or aborts; a plain task
\* re-raises.
BodyDone ==
    /\ ex.pc = "running"
    /\ LET outcome == ex.script[ex.attempts]
           error == IF outcome = "ok" THEN "none" ELSE outcome
           cbs == BodyCallbacks(ex.attempts, ex.ncb)
       IN  IF UsesRetryLoop(ex.kind, ex.eager)
           THEN LET r == RetryLoopStep(outcome, ex.attempts, ex.retryCount)
                    raised == IF r.next = "raise" THEN error ELSE "none"
                IN  ex' = [ex EXCEPT
                              !.txn = r.txn,
                              !.log = Append(ex.log, [outcome |-> outcome, txn |-> r.txn]),
                              !.pc = IF r.next = "retry" THEN "ready" ELSE "finished",
                              !.raised = raised,
                              !.logged = raised # "none"
                                         /\ LogsException(ex.kind, ex.eager),
                              !.pending = ex.pending \o cbs,
                              !.registered = ex.registered \o cbs,
                              !.status = IF r.next = "retry" THEN ex.status
                                                             ELSE CeleryStatus(raised)]
           ELSE LET fate == IF ex.kind = "retryable" /\ ex.eager
                            THEN WithTmExit(outcome)
                            ELSE BodyLeaves(ex.leaves, outcome)
                IN  ex' = [ex EXCEPT
                              !.txn = fate,
                              !.log = Append(ex.log, [outcome |-> outcome, txn |-> fate]),
                              !.pc = "finished",
                              !.raised = error,
                              !.logged = error # "none"
                                         /\ LogsException(ex.kind, ex.eager),
                              !.pending = ex.pending \o cbs,
                              !.registered = ex.registered \o cbs,
                              !.status = CeleryStatus(error)]
    /\ UNCHANGED <<heap, txn, subs, queue, own, proxy>>

\* after_return(status, ...): outside eager mode, abort the transaction a
\* failed task left open, notify TaskFinished, process the finished
\* callbacks; in eager mode, nothing.
AfterReturn ==
    /\ ex.pc = "finished"
    /\ IF TearsDown(ex.eager)
       THEN LET aborts == AbortsOnTeardown(ex.status, ex.txn)
                steps == TeardownSteps(aborts)
                openAt(step) == ex.txn = "open" /\ ~Precedes(steps, "abort", step)
            IN  ex' = [ex EXCEPT
                          !.pc = "done",
                          !.txn = IF aborts THEN "aborted" ELSE ex.txn,
                          !.events = ex.events \o steps,
                          !.notes = ex.notes \o NotifyEvents(ex.status, openAt("notify")),
                          !.invoked = ex.invoked \o CallbacksRun(ex.status, ex.pending),
                          !.pending = <<>>,
                          !.cbTxnOpen = openAt("callbacks")]
       ELSE ex' = [ex EXCEPT !.pc = "done"]
    /\ UNCHANGED <<heap, txn, subs, queue, own, proxy>>

\* The worker is ready for the next job.
NextJob ==
    /\ ex.pc = "done"
    /\ ex' = Idle
    /\ UNCHANGED <<heap, txn, subs, queue, own, proxy>>

\* The Task Queue calls some task, in some mode, with some body.
CallTask ==
    /\ ex.pc = "idle"
    /\ \E kind \in Kinds, eager \in BOOLEAN, configured \in 1 .. MaxAttempts,
          script \in Scripts, leaves \in Leaves, ncb \in 0 .. MaxCallbacks :
          Call(kind, eager, configured, script, leaves, ncb)

NextExec ==
    \/ CallTask
    \/ BeginAttempt
    \/ BodyDone
    \/ AfterReturn
    \/ NextJob

SpecExec == InitExec /\ [][NextExec]_vars

\* ------------------------------------------------------------------------
\* Ownership of the transaction manager of an execution
\* ------------------------------------------------------------------------

\* No manager: the default of make_faux_request's transaction_manager.
NoManager == <<"none", 0>>

\* "tm = TransactionManager()": the n-th manager constructed.
NewTm(n) == <<"new", n>>

\* transaction.manager: the thread-local manager of thread c.
ThreadLocalTm(c) == <<"thread", c>>

\* The manager of the caller's original transaction: the thread-local
\* manager of the caller's thread, or a manager of the caller's own.
CallerTm(c, threadLocal) == IF threadLocal THEN ThreadLocalTm(c) ELSE <<"caller", c>>

\* Variant of EagerPassedManager that hands no manager to make_faux_request.
EagerPassesNoManager(created) == NoManager

\* exec_eager: "self.make_faux_request(transaction_manager=tm)".
EagerPassedManager(created) == created

\* make_faux_request: "if not transaction_manager: transaction_manager =
\* transaction.manager; request.tm = transaction_manager".
FauxRequestTm(passed, c) == IF passed = NoManager THEN ThreadLocalTm(c) ELSE passed

\* The managers an eager execution works with: request.tm, and for
\* RetryableTransactionTask.exec_eager the manager of "with tm:".
EagerTms(kind, created, c) ==
    {FauxRequestTm(EagerPassedManager(created), c)}
        \cup (IF kind = "retryable" THEN {created} ELSE {})

\* The request the loader prepares for a worker execution carries a manager
\* made for that execution; "@retryable(tm=request.tm)" works with it.
LoaderRequestTm(n) == NewTm(n)

InitOwn ==
    /\ heap = [o \in Objs |-> CHOOSE v \in Vals : TRUE]
    /\ txn = [tm \in TM |-> Fresh]
    /\ subs = <<>>
    /\ queue = <<>>
    /\ ex = Idle
    /\ own = NoneRunning
    /\ proxy = Unbound

\* An eager execution starts inside the after-commit hook of caller c, on
\* the caller's thread: __call__ with is_eager, then exec_eager.
StartEager(s, kind, c, threadLocal) ==
    /\ own.run[s].state = "free"
    /\ own.next < MaxExecs
    /\ own' = [next |-> own.next + 1,
               run |-> [own.run EXCEPT ![s] =
                          [state |-> "running", kind |-> kind, eager |-> TRUE,
                           tms |-> EagerTms(kind, NewTm(own.next + 1), c),
                           callerTm |-> CallerTm(c, threadLocal)]]]
    /\ UNCHANGED <<heap, txn, subs, queue, ex, proxy>>

\* A worker execution of a job that caller c submitted starts: __call__
\* without is_eager, "request = self.get_request()".
StartAsync(s, kind, c, threadLocal) ==
    /\ own.run[s].state = "free"
    /\ own.next < MaxExecs
    /\ own' = [next |-> own.next + 1,
               run |-> [own.run EXCEPT ![s] =
                          [state |-> "running", kind |-> kind, eager |-> FALSE,
                           tms |-> {LoaderRequestTm(own.next + 1)},
                           callerTm |-> CallerTm(c, threadLocal)]]]
    /\ UNCHANGED <<heap, txn, subs, queue, ex, proxy>>

\* The execution in slot s returns.
Finish(s) ==
    /\ own.run[s].state = "running"
    /\ own' = [own EXCEPT !.run[s] = NoneRunning.run[s]]
    /\ UNCHANGED <<heap, txn, subs, queue, ex, proxy>>

NextOwn ==
    \/ \E s \in Slots, kind \in Kinds, c \in Callers, threadLocal \in BOOLEAN :
          StartEager(s, kind, c, threadLocal)
    \/ \E s \in Slots, kind \in Kinds, c \in Callers, threadLocal \in BOOLEAN :
          StartAsync(s, kind, c, threadLocal)
    \/ \E s \in Slots : Finish(s)

SpecOwn == InitOwn /\ [][NextOwn]_vars

\* ------------------------------------------------------------------------
\* The task handle: TaskProxy and the task decorator
\* ------------------------------------------------------------------------

\* Variant of ProxyForwards without the test for a bound task.
ProxyForwardsAlways(bound) == TRUE

\* TaskProxy.__getattr__: "if not self.celery_task: raise RuntimeError".
ProxyForwards(bound) == bound

\* TaskProxy.__call__: raises RuntimeError, whatever the state of the proxy.
ProxyCallResult(bound) == "RuntimeError"

InitProxy ==
    /\ heap = [o \in Objs |-> CHOOSE v \in Vals : TRUE]
    /\ txn = [tm \in TM |-> Fresh]
    /\ subs = <<>>
    /\ queue = <<>>
    /\ ex = Idle
    /\ own = NoneRunning
    /\ proxy = Unbound

\* register(), run by config.scan(): proxy.bind_celery_task(celery_task).
BindCeleryTask ==
    /\ ~proxy.bound
    /\ proxy' = [proxy EXCEPT !.bound = TRUE]
    /\ UNCHANGED <<heap, txn, subs, queue, ex, own>>

\* proxy.apply_async(...): __getattr__ looks apply_async up on the bound
\* task, or raises RuntimeError when no task is bound.
ProxyApplyAsync(producer, tm, o) ==
    IF ProxyForwards(proxy.bound)
    THEN ApplyAsync(producer, tm, o)
    ELSE /\ proxy' = [proxy EXCEPT
                         !.refused = IF proxy.bound THEN "bound" ELSE "unbound"]
         /\ UNCHANGED <<heap, txn, subs, queue, ex, own>>

\* proxy(...): TaskProxy.__call__; the decorated function is not run.
ProxyCall ==
    /\ proxy' = [proxy EXCEPT
                    !.lastCall = [bound |-> proxy.bound,
                                  result |-> ProxyCallResult(proxy.bound)]]
    /\ UNCHANGED <<heap, txn, subs, queue, ex, own>>

NextProxy ==
    \/ BindCeleryTask
    \/ \E producer \in BOOLEAN, tm \in TmOption, o \in Objs :
          ProxyApplyAsync(producer, tm, o)
    \/ ProxyCall
    \/ \E tm \in TM : Commit(tm)
    \/ \E tm \in TM : CommitFail(tm)
    \/ \E tm \in TM : Abort(tm)
    \/ \E tm \in TM : AfterCommitHook(tm)
    \/ \E tm \in TM : CommitReturn(tm)

SpecProxy == InitProxy /\ [][NextProxy]_vars


\* ------------------------------------------------------------------------
\* Properties of the web-process side (checked under Spec)
\* ------------------------------------------------------------------------

\* The jobs the Task Queue has received for call s.
JobsOf(s) == SelectSeq(queue, LAMBDA j : j.sub = s)

\* The calls that took the commit-deferred path on manager tm.
DeferredOn(tm) == {s \in DOMAIN subs : ~subs[s].producer /\ subs[s].tm = tm}

\* The jobs the hooks of manager tm's transaction handed to the Task Queue.
HookJobsOf(tm) == SelectSeq(queue, LAMBDA j : j.via = "hook" /\ subs[j.sub].tm = tm)

\* C1: a job submitted through the commit-deferred path (no 'producer'
\* option) is in the Task Queue only if its owning transaction committed
\* successfully; while the transaction is open, after it aborts and after
\* its hooks were called with success = False, the queue holds no job of it.
C1_DeferredOnlyAfterCommit ==
    \A s \in DOMAIN subs :
        (~subs[s].producer /\ Len(JobsOf(s)) > 0) =>
            /\ subs[s].tm \in TM
            /\ txn[subs[s].tm].status \in {"durable", "committed"}

\* C1 witness: a deferred call whose hook was called with success = False,
\* and another whose transaction aborted; neither reached the queue.
C1_Witness ==
    \E s \in DOMAIN subs :
        /\ ~subs[s].producer /\ subs[s].tm \in TM
        /\ txn[subs[s].tm].status = "commitfailed"
        /\ \E i \in DOMAIN txn[subs[s].tm].hooks :
              /\ txn[subs[s].tm].hooks[i].sub = s
              /\ txn[subs[s].tm].hooks[i].fired = 1
        /\ Len(JobsOf(s)) = 0
        /\ \E r \in DOMAIN subs :
              /\ ~subs[r].producer /\ subs[r].tm \in TM
              /\ txn[subs[r].tm].status = "aborted"
              /\ Len(JobsOf(r)) = 0

\* C2: once a transaction in which N commit-deferred calls were made has
\* committed, each call has its own hook, each hook has fired exactly once,
\* and the Task Queue holds exactly N jobs of that transaction, in the order
\* of the calls.
C2_HooksFireOnceInOrder ==
    \A tm \in TM :
        txn[tm].status = "committed" =>
            LET js == HookJobsOf(tm)
                hs == txn[tm].hooks
            IN  /\ Len(hs) = Cardinality(DeferredOn(tm))
                /\ \A i \in DOMAIN hs : hs[i].fired = 1
                /\ Len(js) = Cardinality(DeferredOn(tm))
                /\ \A i \in DOMAIN js : js[i].sub \in DeferredOn(tm)
                /\ \A i, k \in DOMAIN js : i < k => js[i].sub < js[k].sub

\* C2 witness: a committed transaction with at least two deferred calls.
C2_Witness ==
    \E tm \in TM :
        /\ txn[tm].status = "committed"
        /\ Cardinality(DeferredOn(tm)) >= 2
        /\ Len(HookJobsOf(tm)) >= 2

\* C3: a call without 'producer' and without a usable 'tm' option (absent
\* or empty) raises the configuration error (RuntimeError) at the call, and
\* the call adds no hook to any transaction and leaves the queue unchanged.
C3_MissingTmFailsBeforeRegistration ==
    [][(/\ Len(subs') = Len(subs) + 1
        /\ ~subs'[Len(subs')].producer
        /\ subs'[Len(subs')].tm \in {NoTm, EmptyTm})
       => (/\ subs'[Len(subs')].result = "RuntimeError"
           /\ txn' = txn
           /\ queue' = queue)]_vars

\* C3 witness: both kinds of failed call have happened.
C3_Witness ==
    /\ \E s \in DOMAIN subs :
          ~subs[s].producer /\ subs[s].tm = NoTm /\ subs[s].result = "RuntimeError"
    /\ \E s \in DOMAIN subs :
          ~subs[s].producer /\ subs[s].tm = EmptyTm /\ subs[s].result = "RuntimeError"

\* C4: a call with the 'producer' option hands its job to the Task Queue
\* during the call, with or without a 'tm' option, registers no hook on any
\* transaction, and no later commit or abort adds or removes that job.
C4_ProducerBypassesDeferral ==
    \A s \in DOMAIN subs :
        subs[s].producer =>
            /\ subs[s].result = "handle"
            /\ Len(JobsOf(s)) = 1
            /\ JobsOf(s)[1].via = "instant"
            /\ \A tm \in TM : \A i \in DOMAIN txn[tm].hooks : txn[tm].hooks[i].sub # s

\* C4 witness: an instant call made without any 'tm', one made with a
\* transaction manager, and transactions that have since committed and
\* aborted.
C4_Witness ==
    /\ \E s \in DOMAIN subs : subs[s].producer /\ subs[s].tm = NoTm
    /\ \E s \in DOMAIN subs : subs[s].producer /\ subs[s].tm \in TM
    /\ \E tm \in TM : txn[tm].status = "committed"
    /\ \E tm \in TM : txn[tm].status = "aborted"

\* C5: the job a hook delivers on commit carries the arguments as they were
\* at the moment of the apply_async call, with the 'tm' option removed, even
\* if the caller changed the argument objects in between.
C5_ArgsCapturedByValue ==
    \A i \in DOMAIN queue :
        queue[i].via = "hook" =>
            /\ queue[i].val = subs[queue[i].sub].valAtSubmit
            /\ ~queue[i].hasTm

\* ------------------------------------------------------------------------
\* Properties of the worker side (checked under SpecExec)
\* ------------------------------------------------------------------------

\* The execution has left __call__ (returned or raised).
Ended == ex.pc \in {"finished", "done"}

\* A retryable task executed outside eager mode.
RetryableAsync == ex.pc # "idle" /\ ex.kind = "retryable" /\ ~ex.eager

\* The body raises a conflict error on each of its first k runs.
ConflictsFirst(k) == \A i \in 1 .. k : ex.script[i] = "conflict"

\* C6: outside eager mode, a retryable task whose body raises a conflict
\* error on its first k runs and returns on run k+1, with k+1 <= max
\* attempts, ends with status SUCCESS after exactly k+1 attempts, the
\* transaction of attempt k+1 committed, and every earlier attempt's
\* transaction aborted before the next attempt began.
C6_RetriesUntilSuccess ==
    RetryableAsync =>
        /\ ex.pc = "running" => \A i \in DOMAIN ex.log : ex.log[i].txn = "aborted"
        /\ \A k \in 0 .. MaxAttempts - 1 :
              (/\ Ended
               /\ k + 1 <= ex.configured
               /\ ConflictsFirst(k)
               /\ ex.script[k + 1] = "ok")
              => /\ ex.status = "SUCCESS"
                 /\ ex.raised = "none"
                 /\ ex.attempts = k + 1
                 /\ Len(ex.log) = k + 1
                 /\ ex.log[k + 1].txn = "committed"
                 /\ ex.txn = "committed"
                 /\ \A i \in 1 .. k : ex.log[i].txn = "aborted"

\* C6 witness: two conflicts, success on the third attempt of three.
C6_Witness ==
    /\ RetryableAsync /\ Ended
    /\ ex.configured = 3
    /\ ConflictsFirst(2) /\ ex.script[3] = "ok"
    /\ ex.attempts = 3
    /\ ex.status = "SUCCESS"

\* C7: outside eager mode, a retryable task whose body raises a conflict
\* error on every run makes exactly max attempts, never more; the conflict
\* error is propagated, the status is FAILURE and the transaction is left
\* aborted, neither open nor committed.
C7_RetriesExhausted ==
    RetryableAsync =>
        /\ ex.attempts <= ex.configured
        /\ (Ended /\ ConflictsFirst(ex.configured))
           => /\ ex.attempts = ex.configured
              /\ ex.raised = "conflict"
              /\ ex.status = "FAILURE"
              /\ ex.txn = "aborted"
              /\ \A i \in DOMAIN ex.log : ex.log[i].txn = "aborted"

\* C7 witness: two attempts allowed, both conflict, teardown done.
C7_Witness ==
    /\ RetryableAsync /\ ex.pc = "done"
    /\ ex.configured = 2
    /\ ConflictsFirst(2)
    /\ ex.attempts = 2
    /\ ex.status = "FAILURE"

\* C8: when the body of a retryable task raises a non-retryable error on
\* attempt j, that attempt's transaction is aborted, no further attempt is
\* started even if attempts remain, no attempt has committed, and the error
\* is propagated.
C8_NonRetryableErrorStops ==
    RetryableAsync =>
        \A j \in 1 .. MaxAttempts :
            (/\ Ended
             /\ j <= ex.configured
             /\ ConflictsFirst(j - 1)
             /\ ex.script[j] = "error")
            => /\ ex.attempts = j
               /\ Len(ex.log) = j
               /\ ex.log[j].txn = "aborted"
               /\ ex.txn = "aborted"
               /\ \A i \in DOMAIN ex.log : ex.log[i].txn # "committed"
               /\ ex.raised = "error"
               /\ ex.status = "FAILURE"

\* C8 witness: an error on the first attempt while three were allowed.
C8_Witness ==
    /\ RetryableAsync /\ Ended
    /\ ex.configured = 3
    /\ ex.script[1] = "error"
    /\ ex.attempts = 1
    /\ ex.raised = "error"

\* C9: in eager mode the retry attempt count is 1 whatever the configured
\* count, and the execution runs the body exactly once, also when the body
\* raises a conflict error.
C9_EagerNeverRetries ==
    (ex.pc # "idle" /\ ex.eager) =>
        /\ ex.retryCount = 1
        /\ ex.attempts <= 1
        /\ Ended => ex.attempts = 1

\* C9 witness: an eager execution configured for three attempts whose body
\* raised a conflict error and ran once.
C9_Witness ==
    /\ ex.eager /\ Ended
    /\ ex.kind = "retryable"
    /\ ex.configured = 3
    /\ ex.script[1] = "conflict"
    /\ ex.attempts = 1

\* C10: in eager mode an error raised by the body leaves __call__ as that
\* same error, and the transaction exec_eager opened for the execution
\* ("with tm:") is then aborted, not committed.
C10_EagerErrorPropagates ==
    (ex.eager /\ Ended /\ ex.script[1] # "ok") =>
        /\ ex.raised = ex.script[1]
        /\ ex.kind = "retryable" => ex.wrapped
        /\ ex.wrapped => ex.txn = "aborted"

\* C10 witness: an eager retryable task whose body raised a non-retryable
\* error.
C10_Witness ==
    /\ ex.eager /\ Ended
    /\ ex.kind = "retryable"
    /\ ex.script[1] = "error"
    /\ ex.raised = "error"
    /\ ex.txn = "aborted"

\* The number of teardowns of the execution context so far: runs of
\* request._process_finished_callbacks().
Teardowns == Len(SelectSeq(ex.events, LAMBDA e : e = "callbacks"))

\* C11 as stated: every execution, eager ones included, has been torn down
\* exactly once when it is over, and never more than once.
C11_TornDownOnceEveryMode ==
    /\ Teardowns <= 1
    /\ ex.pc = "done" => Teardowns = 1

\* C11 as amended: outside eager mode every execution is torn down exactly
\* once, on every exit path (success, retries exhausted, non-retryable
\* error), never before it ended and never twice; in eager mode after_return
\* tears nothing down.
C11_TornDownOnceOutsideEager ==
    /\ Teardowns <= 1
    /\ ex.pc # "done" => Teardowns = 0
    /\ (ex.pc = "done" /\ ~ex.eager) => Teardowns = 1
    /\ (ex.pc = "done" /\ ex.eager) => Teardowns = 0

\* C11 witness: a non-eager execution that exhausted its retries and was
\* torn down once.
C11_Witness ==
    /\ ex.pc = "done" /\ ~ex.eager
    /\ ex.kind = "retryable"
    /\ ex.attempts >= 2
    /\ ex.status = "FAILURE"
    /\ Teardowns = 1

\* C12: after the teardown of an execution that ended in FAILURE the
\* transaction manager holds no open transaction: a transaction the body
\* left open was aborted by the teardown.
C12_NoOpenTransactionAfterFailure ==
    (ex.pc = "done" /\ Teardowns = 1 /\ ex.status = "FAILURE") =>
        /\ ex.txn # "open"
        /\ ex.log[Len(ex.log)].txn = "open" =>
              /\ ex.txn = "aborted"
              /\ \E i \in DOMAIN ex.events : ex.events[i] = "abort"

\* C12 witness: a failed body left its transaction open and the teardown
\* aborted it.
C12_Witness ==
    /\ ex.pc = "done" /\ ex.status = "FAILURE"
    /\ ex.log[Len(ex.log)].txn = "open"
    /\ ex.txn = "aborted"

\* The status a TaskFinished notification would carry for a Celery state.
StatusWord(status) == IF status = "SUCCESS" THEN "success" ELSE "failure"

\* C13 as stated: every execution emits exactly one TaskFinished
\* notification, carrying the context, the task and a success / failure
\* status.
C13_OneNotificationWithStatus ==
    ex.pc = "done" =>
        /\ Len(ex.notes) = 1
        /\ ex.notes[1].args = <<"request", "task", StatusWord(ex.status)>>

\* C13 as amended: every execution outside eager mode emits exactly one
\* TaskFinished notification, at teardown, carrying the context and the
\* task and no status; an eager execution emits none.
C13_OneNotificationOutsideEager ==
    /\ ex.pc # "done" => ex.notes = <<>>
    /\ (ex.pc = "done" /\ ~ex.eager) =>
          /\ Len(ex.notes) = 1
          /\ ex.notes[1].args = <<"request", "task">>
    /\ (ex.pc = "done" /\ ex.eager) => ex.notes = <<>>

\* C13 witness: a notification for a successful and non-eager execution.
C13_Witness ==
    /\ ex.pc = "done" /\ ~ex.eager
    /\ ex.status = "SUCCESS"
    /\ Len(ex.notes) = 1

\* C14 as stated: when an execution is over, every finished callback
\* registered during it has been invoked, in registration order, each once,
\* and none was invoked before the attempts ended.
C14_CallbacksRunEveryMode ==
    /\ ex.pc # "done" => ex.invoked = <<>>
    /\ ex.pc = "done" => ex.invoked = ex.registered

\* C14 as amended: outside eager mode the finished callbacks registered
\* during an execution are all invoked at teardown, in registration order,
\* each once, after success and after failure alike, and none before the
\* attempts ended; in eager mode they are not invoked.
C14_CallbacksRunOutsideEager ==
    /\ ex.pc # "done" => ex.invoked = <<>>
    /\ (ex.pc = "done" /\ ~ex.eager) =>
          /\ ex.invoked = ex.registered
          /\ ex.pending = <<>>
    /\ (ex.pc = "done" /\ ex.eager) => ex.invoked = <<>>

\* C14 witness: a failed execution of two attempts whose four callbacks
\* were all invoked.
C14_Witness ==
    /\ ex.pc = "done" /\ ~ex.eager
    /\ ex.status = "FAILURE"
    /\ ex.attempts = 2
    /\ Len(ex.registered) = 4
    /\ ex.invoked = ex.registered

\* C18: outside eager mode every exception that leaves __call__ was logged
\* by the wrapper and is the exception the body raised, for both task
\* classes.
C18_EveryEscapingExceptionLogged ==
    (ex.pc \in {"finished", "done"} /\ ~ex.eager /\ ex.script[ex.attempts] # "ok") =>
        /\ ex.raised = ex.script[ex.attempts]
        /\ ex.logged

\* C19: in a non-eager teardown the abort of an open transaction (FAILURE
\* only) comes first, then the TaskFinished notification, then the finished
\* callbacks; for a failed task neither of the two runs while the task's
\* transaction is open.
C19_TeardownOrder ==
    (ex.pc = "done" /\ ~ex.eager) =>
        /\ Precedes(ex.events, "notify", "callbacks")
        /\ \A i \in DOMAIN ex.events :
              ex.events[i] = "abort" => (i = 1 /\ ex.status = "FAILURE")
        /\ ex.status = "FAILURE" =>
              /\ \A i \in DOMAIN ex.notes : ~ex.notes[i].txnOpen
              /\ ~ex.cbTxnOpen

\* C19 witness: a teardown that aborted, notified and ran callbacks.
C19_Witness ==
    /\ ex.pc = "done" /\ ~ex.eager
    /\ ex.events = <<"abort", "notify", "callbacks">>
    /\ Len(ex.invoked) > 0

\* C16: the deferred submissions of a committing transaction are handed to
\* the Task Queue after the commit is durable and before commit() returns:
\* none while the transaction is still open, one per hook called so far
\* while the hooks run, and all of them once commit() has returned.
C16_SubmittedBetweenDurableAndReturn ==
    \A tm \in TM :
        /\ txn[tm].status = "active" => Len(HookJobsOf(tm)) = 0
        /\ txn[tm].status = "durable" => Len(HookJobsOf(tm)) = txn[tm].idx - 1
        /\ txn[tm].status = "committed" =>
              \A s \in DeferredOn(tm) : Len(JobsOf(s)) = 1

\* C16 witness: a durable commit that has handed over one of its two
\* submissions and has not returned yet.
C16_Witness ==
    \E tm \in TM :
        /\ txn[tm].status = "durable"
        /\ Len(txn[tm].hooks) = 2
        /\ txn[tm].idx = 2
        /\ Len(HookJobsOf(tm)) = 1

\* The hooks that were called with success = True.
FiredWithSuccess(tm) ==
    {i \in DOMAIN txn[tm].hooks :
        txn[tm].hooks[i].fired > 0 /\ txn[tm].status \in {"durable", "committed"}}

\* C17 as stated: a commit-deferred call returns nothing, and a hook called
\* with success = True returns the job handle the Task Queue yields.
C17_HookReturnsHandle ==
    /\ \A s \in DOMAIN subs :
          (~subs[s].producer /\ subs[s].tm \in TM) => subs[s].result = "None"
    /\ \A tm \in TM : \A i \in FiredWithSuccess(tm) : txn[tm].hooks[i].ret = "handle"

\* C17 as amended: a commit-deferred call returns nothing, whether or not
\* the transaction commits later; a hook called with success = True performs
\* the immediate submission and, like a hook called with False, returns
\* nothing.
C17_HookReturnsNothing ==
    /\ \A s \in DOMAIN subs :
          (~subs[s].producer /\ subs[s].tm \in TM) => subs[s].result = "None"
    /\ \A tm \in TM : \A i \in DOMAIN txn[tm].hooks :
          LET h == txn[tm].hooks[i] IN
          /\ h.fired > 0 => h.ret = "None"
          /\ i \in FiredWithSuccess(tm) => Len(JobsOf(h.sub)) = 1

\* C17 witness: a hook called with True and a hook called with False.
C17_Witness ==
    /\ \E tm \in TM : txn[tm].status = "committed" /\ FiredWithSuccess(tm) # {}
    /\ \E tm \in TM : /\ txn[tm].status = "commitfailed"
                      /\ \E i \in DOMAIN txn[tm].hooks : txn[tm].hooks[i].fired > 0

\* C20: as long as the proxy is not bound, every forwarded operation is
\* refused with an error, nothing has been submitted to the Task Queue and
\* no hook is registered; once it is bound no forwarded operation is
\* refused; and a direct call of the proxy raises an error, bound or not,
\* without running the decorated function.
C20_ProxyDispatchesOnlyWhenBound ==
    /\ ~proxy.bound =>
          /\ subs = <<>>
          /\ queue = <<>>
          /\ \A tm \in TM : txn[tm].hooks = <<>>
    /\ proxy.refused # "bound"
    /\ proxy.lastCall.result \in {"none", "RuntimeError"}
    /\ proxy.ran = 0

\* C20 witness: an operation was refused before the binding, operations
\* reached the task after it (a job is queued and a hook registered), and
\* the bound proxy was called directly.
C20_Witness ==
    /\ proxy.bound
    /\ proxy.refused = "unbound"
    /\ Len(queue) > 0
    /\ \E tm \in TM : txn[tm].hooks # <<>>
    /\ proxy.lastCall = [bound |-> TRUE, result |-> "RuntimeError"]

\* The slots in which an execution is running.
Running == {s \in Slots : own.run[s].state = "running"}

\* C15: no two executions that run at the same time work with the same
\* transaction manager, and no execution, eager ones included, works with
\* the manager of the caller's transaction whose commit triggered it.
C15_TmOwnedByOneExecution ==
    /\ \A s, t \in Running :
          s # t => own.run[s].tms \cap own.run[t].tms = {}
    /\ \A s \in Running :
          /\ own.run[s].tms # {}
          /\ own.run[s].callerTm \notin own.run[s].tms

\* C15 witness: an eager retryable execution triggered by a caller whose
\* transaction is on the thread-local manager runs at the same time as a
\* worker execution.
C15_Witness ==
    \E s, t \in Running :
        /\ own.run[s].eager
        /\ own.run[s].kind = "retryable"
        /\ own.run[s].callerTm[1] = "thread"
        /\ ~own.run[t].eager

====
